---- MODULE Spec2Model ----
(***************************************************************************)
(* The resilient retrieval layer of the NewsTiger bot                      *)
(* (scripts/telegram_bot.py, class GDELTNewsBot): the two-tier cache, the  *)
(* rate limiter, the endpoint/retry loop of fetch_news and the GitHub      *)
(* Pages fallback.                                                         *)
(*                                                                         *)
(* Time.  The code compares differences of wall-clock readings             *)
(* (time.time() - cached_time, datetime.now() - cached_at,                 *)
(* now - last_request_time).  The model keeps those differences: every     *)
(* stored timestamp is represented by its age, and Elapse(S, d) lets d     *)
(* seconds pass.  An age is capped at the largest value it is ever         *)
(* compared with, which changes no comparison.                             *)
(*                                                                         *)
(* Control.  The handlers are synchronous (time.sleep inside the handler), *)
(* so one fetch_news call is in flight at a time; pc is its position.      *)
(*                                                                         *)
(* Specifications.  Spec and FairSpec follow fetch_news; CacheSpec calls   *)
(* the cache methods, the limiter and fetch_trending directly; PureSpec    *)
(* and FormatSpec apply _get_cache_key and _format_articles to bounded     *)
(* inputs; LoopSpec follows the handlers on the event loop.  GuardianSpec  *)
(* follows run() of the publisher (scripts/fetch_news.py) call by call,    *)
(* and FallbackDataSpec follows main() of scripts/create_fallback_data.py  *)
(* file by file.                                                           *)
(***************************************************************************)
EXTENDS Integers, Sequences, FiniteSets, TLC

\* ------------------------------------------------------------------ bounds
MaxRequests == 3      \* fetch_news calls in one run
MaxLive == 2          \* of which so many miss the cache and go upstream
MaxItems == 2         \* longest ordinary article list of an upstream answer
MaxOps == 4           \* direct calls of the cache and limiter methods
MaxTasks == 3         \* commands that reach the event loop in one run

\* ------------------------------------------------- constants of the program
cache_duration == 3600
memory_cache_timeout == 300
min_request_interval == 2
retry == 3
CallTimeout == 15
ArticleCap == 10
RateLimitBase == 5
RetryBase == 10

Min(a, b) == IF a < b THEN a ELSE b

\* Python's None, as f"{None}" prints it; no request uses the text "None".
None == "None"
\* the value of a call that returned None, and the empty JSON object {}
NoneResult == [none |-> TRUE]
EmptyDict == [empty_dict |-> TRUE]

\* `if x:` for the values fetch_news tests: None and {} are falsy.
Truthy(x) == x # NoneResult /\ x # EmptyDict

\* ------------------------------------------------------------ input ranges
Queries == {"technology"}
Countries == {"RU"}

\* random.uniform(a, b): the two ends of each range
Jitter429 == {1, 5}
JitterEndpoint == {1, 3}
JitterRetry == {5, 10}

\* time between the return of one fetch_news and the next call
Gaps == {0, memory_cache_timeout - 1, memory_cache_timeout,
         cache_duration - 1, cache_duration}

\* the max_age values the callers pass (lines 299 and 341); 0 is None
TrendingMaxAge == 1800
TranslationMaxAge == 86400

\* ages are capped where no comparison can tell the difference
AgeCap == TranslationMaxAge

\* ---------------------------------------------------------- endpoint list
endpoint_configs ==
    << [url |-> "https://api.gdeltproject.org/api/v2/doc/doc",
        mode |-> "artlist", sort |-> "date"],
       [url |-> "https://api.gdeltproject.org/api/v2/doc/doc",
        mode |-> "artlist", sort |-> "relevance"],
       [url |-> "https://api.gdeltproject.org/api/v2/summary/summary",
        mode |-> "summary", sort |-> None] >>

\* 'summary' in config['url']
IsSummaryUrl(cfg) == cfg.mode = "summary"

\* ------------------------------------------------------------- KeyDeriver
\* f"{endpoint_type}_{query}_{country}"; md5 is kept as its preimage
\* (an injective stand-in for the digest).
_get_cache_key(query, country, endpoint_type) ==
    endpoint_type \o "_" \o query \o "_" \o country

\* --------------------------------------------------------------- formatting
\* a slip in the slice: raw_data.get('articles', [])[1:10]
_format_articles_SkipsFirst(raw_data, query, country, stamp) ==
    LET arts == SubSeq(raw_data.articles, 2,
                       Min(Len(raw_data.articles), ArticleCap))
    IN [query |-> query, country |-> country, timestamp |-> stamp,
        total |-> Len(arts), articles |-> arts, source |-> "GDELT API"]

\* raw_data.get('articles', [])[:10], one formatted entry per raw item
_format_articles(raw_data, query, country, stamp) ==
    LET arts == SubSeq(raw_data.articles, 1,
                       Min(Len(raw_data.articles), ArticleCap))
    IN [query |-> query, country |-> country, timestamp |-> stamp,
        total |-> Len(arts), articles |-> arts, source |-> "GDELT API"]

\* a slip in the label: the summary formatter labelled like the article one
_format_summary_ApiLabel(raw_data, query, country, stamp) ==
    LET arts == IF raw_data.summary THEN <<"Summary">> ELSE <<>>
    IN [query |-> query, country |-> country, timestamp |-> stamp,
        total |-> Len(arts), articles |-> arts, source |-> "GDELT API"]

\* one entry iff the answer has a 'summary' key
_format_summary(raw_data, query, country, stamp) ==
    LET arts == IF raw_data.summary THEN <<"Summary">> ELSE <<>>
    IN [query |-> query, country |-> country, timestamp |-> stamp,
        total |-> Len(arts), articles |-> arts, source |-> "GDELT Summary"]

\* ------------------------------------------------------------------- clock
AgeBy(a, d, cap) == Min(a + d, cap)

\* d seconds pass: every stored timestamp gets d seconds older
Elapse(S, d) ==
    [S EXCEPT
       !.memory_cache = [k \in DOMAIN S.memory_cache |->
           [S.memory_cache[k] EXCEPT
              !.age = AgeBy(@, d, memory_cache_timeout)]],
       !.disk = [k \in DOMAIN S.disk |->
           IF S.disk[k].corrupt THEN S.disk[k]
           ELSE [S.disk[k] EXCEPT !.age = AgeBy(@, d, AgeCap)]],
       !.since_last = AgeBy(@, d, min_request_interval),
       !.last_live = [k \in DOMAIN S.last_live |->
           [S.last_live[k] EXCEPT
              !.age = AgeBy(@, d, memory_cache_timeout)]]]

\* a slip: dict.setdefault(key, value), which keeps an entry already there
Put_KeepsOld(f, k, v) ==
    [x \in DOMAIN f \cup {k} |-> IF x \in DOMAIN f THEN f[x] ELSE v]

\* dict[key] = value
Put(f, k, v) == [x \in DOMAIN f \cup {k} |-> IF x = k THEN v ELSE f[x]]
\* removal of a key
Drop(f, k) == [x \in DOMAIN f \ {k} |-> f[x]]

\* ------------------------------------------------------------- RateLimiter
\* a slip: the remainder is computed but not slept
sleep_time_Skipped(S) == 0

\* lines 91-94: the remainder of the interval, if any
sleep_time(S) ==
    LET time_since_last == S.since_last
    IN IF time_since_last < min_request_interval
       THEN min_request_interval - time_since_last ELSE 0

\* sleep until min_request_interval has passed since the last call,
\* then last_request_time = time.time()
_rate_limit(S) ==
    [Elapse(S, sleep_time(S)) EXCEPT !.since_last = 0]

\* -------------------------------------------------------------- CacheStore
\* a readable cache file
DiskFile(age, expires_in, data) ==
    [corrupt |-> FALSE, age |-> age, expires_in |-> expires_in, data |-> data]
\* a cache file that json.load cannot parse (a write that broke off)
CorruptFile == [corrupt |-> TRUE]

\* a slip in the comparison: the freshness test reversed
MemFresh_Reversed(age) == age > memory_cache_timeout

\* time.time() - cached_time < self.memory_cache_timeout
MemFresh(age) == age < memory_cache_timeout

\* max_age or self.cache_duration
DiskLimit(max_age) == IF max_age = 0 THEN cache_duration ELSE max_age

DiskFresh(age, max_age) == age < DiskLimit(max_age)

\* a slip: the except clause of the disk read answers with whatever the
\* memory tier still holds
_get_from_cache_StaleOnError(S, cache_key, max_age) ==
    IF cache_key \in DOMAIN S.memory_cache
       /\ MemFresh(S.memory_cache[cache_key].age)
    THEN [S |-> [S EXCEPT !.stats.cache_hits = @ + 1],
          ret |-> S.memory_cache[cache_key].data, tier |-> "memory"]
    ELSE IF cache_key \in DOMAIN S.disk
    THEN IF S.disk[cache_key].corrupt
         THEN [S |-> S,
               ret |-> IF cache_key \in DOMAIN S.memory_cache
                       THEN S.memory_cache[cache_key].data ELSE NoneResult,
               tier |-> "memory"]
         ELSE IF DiskFresh(S.disk[cache_key].age, max_age)
         THEN [S |-> [S EXCEPT
                        !.memory_cache = Put(@, cache_key,
                            [age |-> 0, data |-> S.disk[cache_key].data]),
                        !.stats.cache_hits = @ + 1],
               ret |-> S.disk[cache_key].data, tier |-> "disk"]
         ELSE [S |-> [S EXCEPT !.disk = Drop(@, cache_key)],
               ret |-> NoneResult, tier |-> "none"]
    ELSE [S |-> S, ret |-> NoneResult, tier |-> "none"]

\* a slip: a disk hit that is not copied to the memory tier
_get_from_cache_NoWriteThrough(S, cache_key, max_age) ==
    IF cache_key \in DOMAIN S.memory_cache
       /\ MemFresh(S.memory_cache[cache_key].age)
    THEN [S |-> [S EXCEPT !.stats.cache_hits = @ + 1],
          ret |-> S.memory_cache[cache_key].data, tier |-> "memory"]
    ELSE IF cache_key \in DOMAIN S.disk
    THEN IF S.disk[cache_key].corrupt
         THEN [S |-> S, ret |-> NoneResult, tier |-> "none"]
         ELSE IF DiskFresh(S.disk[cache_key].age, max_age)
         THEN [S |-> [S EXCEPT !.stats.cache_hits = @ + 1],
               ret |-> S.disk[cache_key].data, tier |-> "disk"]
         ELSE [S |-> [S EXCEPT !.disk = Drop(@, cache_key)],
               ret |-> NoneResult, tier |-> "none"]
    ELSE [S |-> S, ret |-> NoneResult, tier |-> "none"]

\* what json.load gives back for what json.dump wrote: a tuple comes back
\* as a list, everything the formatters build comes back as it was
JsonImage(data) ==
    IF "kind" \in DOMAIN data /\ data.kind = "tuple"
    THEN [data EXCEPT !.kind = "list"]
    ELSE data

\* a slip: an expired file that is left where it is
_get_from_cache_KeepsExpired(S, cache_key, max_age) ==
    IF cache_key \in DOMAIN S.memory_cache
       /\ MemFresh(S.memory_cache[cache_key].age)
    THEN [S |-> [S EXCEPT !.stats.cache_hits = @ + 1],
          ret |-> S.memory_cache[cache_key].data, tier |-> "memory"]
    ELSE IF cache_key \in DOMAIN S.disk
    THEN IF S.disk[cache_key].corrupt
         THEN [S |-> S, ret |-> NoneResult, tier |-> "none"]
         ELSE IF DiskFresh(S.disk[cache_key].age, max_age)
         THEN [S |-> [S EXCEPT
                        !.memory_cache = Put(@, cache_key,
                            [age |-> 0,
                             data |-> JsonImage(S.disk[cache_key].data)]),
                        !.stats.cache_hits = @ + 1],
               ret |-> JsonImage(S.disk[cache_key].data), tier |-> "disk"]
         ELSE [S |-> S, ret |-> NoneResult, tier |-> "none"]
    ELSE [S |-> S, ret |-> NoneResult, tier |-> "none"]

\* returns [S |-> the bot afterwards, ret |-> the payload or NoneResult,
\* tier |-> the tier that answered]; max_age = 0 stands for max_age=None
_get_from_cache(S, cache_key, max_age) ==
    IF cache_key \in DOMAIN S.memory_cache
       /\ MemFresh(S.memory_cache[cache_key].age)
    THEN [S |-> [S EXCEPT !.stats.cache_hits = @ + 1],
          ret |-> S.memory_cache[cache_key].data, tier |-> "memory"]
    ELSE IF cache_key \in DOMAIN S.disk
    THEN IF S.disk[cache_key].corrupt
         THEN [S |-> S, ret |-> NoneResult, tier |-> "none"]
         ELSE IF DiskFresh(S.disk[cache_key].age, max_age)
         THEN [S |-> [S EXCEPT
                        !.memory_cache = Put(@, cache_key,
                            [age |-> 0,
                             data |-> JsonImage(S.disk[cache_key].data)]),
                        !.stats.cache_hits = @ + 1],
               ret |-> JsonImage(S.disk[cache_key].data), tier |-> "disk"]
         ELSE [S |-> [S EXCEPT !.disk = Drop(@, cache_key)],
               ret |-> NoneResult, tier |-> "none"]
    ELSE [S |-> S, ret |-> NoneResult, tier |-> "none"]

\* what the disk write of _save_to_cache can do
DiskWrites == {"written", "open_failed", "broke_off"}

\* a slip: the memory write placed inside the try, after json.dump
_save_to_cache_MemoryLast(S, cache_key, data, duration, write) ==
    LET mem == IF write = "written"
               THEN Put(S.memory_cache, cache_key, [age |-> 0, data |-> data])
               ELSE S.memory_cache
        expires_in == IF duration = 0 THEN cache_duration ELSE duration
        dsk == CASE write = "written" ->
                      Put(S.disk, cache_key, DiskFile(0, expires_in, data))
                 [] write = "open_failed" -> S.disk
                 [] write = "broke_off" -> Put(S.disk, cache_key, CorruptFile)
    IN [S EXCEPT !.memory_cache = mem, !.disk = dsk]

\* a slip: the memory tier is not written
_save_to_cache_DiskOnly(S, cache_key, data, duration, write) ==
    LET expires_in == IF duration = 0 THEN cache_duration ELSE duration
        dsk == CASE write = "written" ->
                      Put(S.disk, cache_key, DiskFile(0, expires_in, data))
                 [] write = "open_failed" -> S.disk
                 [] write = "broke_off" -> Put(S.disk, cache_key, CorruptFile)
    IN [S EXCEPT !.disk = dsk]

\* 0 stands for cache_duration=None
_save_to_cache(S, cache_key, data, duration, write) ==
    LET mem == Put(S.memory_cache, cache_key, [age |-> 0, data |-> data])
        expires_in == IF duration = 0 THEN cache_duration ELSE duration
        dsk == CASE write = "written" ->
                      Put(S.disk, cache_key, DiskFile(0, expires_in, data))
                 [] write = "open_failed" -> S.disk
                 [] write = "broke_off" -> Put(S.disk, cache_key, CorruptFile)
    IN [S EXCEPT !.memory_cache = mem, !.disk = dsk]

\* ------------------------------------------------------- upstream answers
NotJson == [not_json |-> TRUE]

RawLens == (0 .. MaxItems) \cup {ArticleCap + 1}

\* a JSON object: its 'articles' list and whether it has a 'summary' key
JsonDocs == {[articles |-> [i \in 1 .. n |-> i], summary |-> s] :
                n \in RawLens, s \in BOOLEAN}

\* what requests.get can do: raise, or answer with a status and a body
Upstream ==
    {[exc |-> e, status |-> 0, json |-> NotJson] :
        e \in {"Timeout", "ConnectionError"}}
    \cup {[exc |-> "none", status |-> s, json |-> NotJson] : s \in {429, 500}}
    \cup {[exc |-> "none", status |-> 200, json |-> d] :
        d \in JsonDocs \cup {NotJson}}

\* the published snapshot: the GET raises, answers non-200, or answers 200
\* with a JSON object ({} included)
SnapshotDocs ==
    {[source |-> "technology", timestamp |-> 0, total |-> n,
      articles |-> [i \in 1 .. n |-> i], api |-> "Guardian"] :
        n \in 0 .. MaxItems}

Snapshots ==
    {[status |-> "exception", data |-> EmptyDict],
     [status |-> "not_found", data |-> EmptyDict]}
    \cup {[status |-> "ok", data |-> d] : d \in SnapshotDocs \cup {EmptyDict}}

\* ------------------------------------------------------------------- state
VARIABLES
    memory_cache,        \* key -> [age, data]          (self.memory_cache)
    disk_cache,          \* key -> cache file           (cache/<key>.json)
    since_last_request,  \* time.time() - self.last_request_time
    stats,               \* self.stats
    pc,                  \* position of the fetch_news call in flight
    req,                 \* its arguments
    cache_key,           \* its fingerprint
    attempt,             \* loop variable of `for attempt in range(retry)`
    config,              \* index in endpoint_configs of the inner loop
    wait_time,           \* argument of the time.sleep the call is about to do
    result,              \* the value fetch_news returned
    outcome,             \* how the upstream call just made ended
    response,            \* the JSON of its answer (NotJson if it had none)
    origin,              \* where the returned payload came from
    reqNo,               \* serial number of the call (stands for now())
    liveNo,              \* calls so far that went to the upstream
    req_calls,           \* HTTP requests this call sent to the upstream
    fallback_calls,      \* _fetch_from_github_pages calls of this call
    last_backoff,        \* latest backoff wait of this call, without jitter
    last_live,           \* key -> [age, data] of the latest live answer
    hist,                \* the latest direct call of a cache or limiter method
    loop,                \* the event loop: who runs, where each handler is
    fetcher,             \* the GuardianFetcher of fetch_news.py and its run()
    main                 \* main() of create_fallback_data.py

vars == <<memory_cache, disk_cache, since_last_request, stats, pc, req,
          cache_key, attempt, config, wait_time, result, outcome, response,
          origin,
          reqNo, liveNo, req_calls, fallback_calls, last_backoff, last_live,
          hist, loop, fetcher, main>>

EmptyMap == [k \in {} |-> 0]

\* no direct call yet
NoCall == [name |-> "none", key |-> "", data |-> NoneResult, ttl |-> 0,
           max_age |-> 0, write |-> "none", ret |-> NoneResult,
           tier |-> "none", ops |-> 0, acquires |-> 0, span |-> 0,
           derived |-> NoneResult, prev |-> NoneResult]

\* the bot's shared state as one value
\* the event loop before any command arrived
Tasks == 1 .. MaxTasks
NoTask == 0
NoHandler == [thread |-> NoTask,
              at |-> [t \in Tasks |-> "queued"],
              wake |-> [t \in Tasks |-> 0],
              calls |-> [t \in Tasks |-> 0],
              returns |-> 0]

\* the fetcher after __init__ (lines 16-63), run() not yet started
NewFetcher ==
    [stats |-> [api_calls |-> 0, articles_fetched |-> 0, errors |-> 0],
     phase |-> 1, i |-> 1, raised |-> FALSE, files |-> {},
     status |-> "none", ret |-> NoneResult, latest |-> NoneResult]

\* main() of create_fallback_data.py before its first topic (lines 206-226)
NoData == [topic |-> 1, all_articles |-> <<>>, written |-> NoneResult,
           files |-> {}]

Bot == [memory_cache |-> memory_cache, disk |-> disk_cache,
        since_last |-> since_last_request, stats |-> stats,
        last_live |-> last_live]

SetBot(S) ==
    /\ memory_cache' = S.memory_cache
    /\ disk_cache' = S.disk
    /\ since_last_request' = S.since_last
    /\ stats' = S.stats
    /\ last_live' = S.last_live

Init ==
    /\ memory_cache = EmptyMap
    /\ disk_cache = EmptyMap
    /\ since_last_request = min_request_interval
    /\ stats = [api_calls |-> 0, cache_hits |-> 0, errors |-> 0]
    /\ pc = "idle"
    /\ req = [query |-> "", country |-> None]
    /\ cache_key = ""
    /\ attempt = 0
    /\ config = 1
    /\ wait_time = 0
    /\ result = NoneResult
    /\ outcome = "none"
    /\ response = NotJson
    /\ origin = "none"
    /\ reqNo = 0
    /\ liveNo = 0
    /\ req_calls = 0
    /\ fallback_calls = 0
    /\ last_backoff = 0
    /\ last_live = EmptyMap
    /\ hist = NoCall
    /\ loop = NoHandler
    /\ fetcher = NewFetcher
    /\ main = NoData

\* ------------------------------------------------------------- fetch_news
\* lines 159-205: the cache lookup, then the rate limiter
FetchNews(query, country, gap) ==
    /\ pc \in {"idle", "done"}
    /\ reqNo < MaxRequests
    /\ LET key == _get_cache_key(query, country, "news")
           got == _get_from_cache(Elapse(Bot, gap), key, 0)
       IN /\ cache_key' = key
          /\ IF Truthy(got.ret)
             THEN /\ SetBot(got.S)
                  /\ result' = got.ret
                  /\ origin' = "cache"
                  /\ pc' = "done"
                  /\ liveNo' = liveNo
             ELSE /\ liveNo < MaxLive
                  /\ liveNo' = liveNo + 1
                  /\ SetBot(_rate_limit(got.S))
                  /\ result' = NoneResult
                  /\ origin' = "none"
                  /\ pc' = "request"
    /\ req' = [query |-> query, country |-> country]
    /\ reqNo' = reqNo + 1
    /\ attempt' = 0
    /\ config' = 1
    /\ wait_time' = 0
    /\ outcome' = "none"
    /\ response' = NotJson
    /\ req_calls' = 0
    /\ fallback_calls' = 0
    /\ last_backoff' = 0
    /\ UNCHANGED <<hist, loop, fetcher, main>>

\* a slip: no `except Exception` clause
Caught_NetworkOnly(exc) ==
    \/ exc = "Timeout"
    \/ exc = "ConnectionError"

\* the except clauses of lines 245-250
Caught(exc) ==
    \/ exc = "Timeout"
    \/ exc = "ConnectionError"
    \/ exc \in {"Timeout", "ConnectionError", "ValueError"}

\* a slip: `if formatted:` alone
Usable_AnyResult(formatted) == formatted # EmptyDict

\* a slip: `'articles' in formatted`, true of an empty list too
Usable_HasKey(formatted) == "articles" \in DOMAIN formatted

\* formatted and formatted.get('articles')
Usable(formatted) == Len(formatted.articles) > 0

\* slips: a wait that grows linearly, a wait that does not grow
RateLimitedWait_Linear(a) == (a + 1) * RateLimitBase
RetryWait_Flat(a) == RetryBase

\* (2 ** attempt) * 5 and (2 ** attempt) * 10, the waits without the jitter
RateLimitedWait(a) == (2 ^ a) * RateLimitBase
RetryWait(a) == (2 ^ a) * RetryBase

\* what the try block raises for an upstream answer
Raises(r) ==
    IF r.exc # "none" THEN r.exc
    ELSE IF r.status = 200 /\ r.json = NotJson THEN "ValueError"
    ELSE "none"

\* the formatter the configuration selects (lines 225-228)
Format(cfg, r, query, country, stamp) ==
    IF IsSummaryUrl(cfg)
    THEN _format_summary(r.json, query, country, stamp)
    ELSE _format_articles(r.json, query, country, stamp)

\* a slip: timeouts and connection errors sent through the 429 branch
Classify_NetworkErrorBacksOff(r, formatted) ==
    IF Raises(r) # "none"
    THEN [outcome |-> Raises(r),
          pc |-> IF Raises(r) \in {"Timeout", "ConnectionError"}
                 THEN "backoff"
                 ELSE IF Caught(Raises(r)) THEN "delay" ELSE "raised"]
    ELSE IF r.status = 200
    THEN IF Usable(formatted)
         THEN [outcome |-> "success", pc |-> "done"]
         ELSE [outcome |-> "empty", pc |-> "delay"]
    ELSE IF r.status = 429
    THEN [outcome |-> "rate_limited", pc |-> "backoff"]
    ELSE [outcome |-> "status_error", pc |-> "delay"]

\* lines 221-250: what fetch_news does with the outcome of a call
\*   done    - return the formatted result
\*   backoff - the 429 branch: wait, then `continue`
\*   delay   - fall through to the sleep of line 253
\*   raised  - the exception leaves fetch_news
Classify(r, formatted) ==
    IF Raises(r) # "none"
    THEN [outcome |-> Raises(r),
          pc |-> IF Caught(Raises(r)) THEN "delay" ELSE "raised"]
    ELSE IF r.status = 200
    THEN IF Usable(formatted)
         THEN [outcome |-> "success", pc |-> "done"]
         ELSE [outcome |-> "empty", pc |-> "delay"]
    ELSE IF r.status = 429
    THEN [outcome |-> "rate_limited", pc |-> "backoff"]
    ELSE [outcome |-> "status_error", pc |-> "delay"]

\* the argument of the time.sleep that follows (lines 237 and 253)
SleepAfter(next_pc, a, jitter) ==
    IF next_pc = "backoff" THEN RateLimitedWait(a) + jitter
    ELSE IF next_pc = "delay" THEN jitter
    ELSE 0

\* lines 209-250: one upstream call and the classification of its outcome;
\* jitter is the random part of the sleep that follows the call
IssueCall(r, write, jitter) ==
    /\ pc = "request"
    /\ LET cfg == endpoint_configs[config]
           S1 == IF r.exc = "Timeout" THEN Elapse(Bot, CallTimeout) ELSE Bot
           S2 == IF r.exc = "none"
                 THEN [S1 EXCEPT !.stats.api_calls = @ + 1] ELSE S1
           formatted == Format(cfg, r, req.query, req.country, reqNo)
           saved == _save_to_cache(S2, cache_key, formatted, 0, write)
           next == Classify(r, formatted)
       IN /\ pc' = next.pc
          /\ outcome' = next.outcome
          /\ wait_time' = SleepAfter(next.pc, attempt, jitter)
          /\ IF next.pc = "done"
             THEN /\ SetBot([saved EXCEPT !.last_live =
                            Put(@, cache_key,
                                [age |-> 0, data |-> formatted])])
                  /\ result' = formatted
                  /\ origin' = "live"
             ELSE /\ SetBot(S2)
                  /\ UNCHANGED <<result, origin>>
    /\ response' = r.json
    /\ req_calls' = req_calls + 1
    /\ UNCHANGED <<hist, loop, fetcher, main,
                   req, cache_key, attempt, config, reqNo, liveNo,
                   fallback_calls, last_backoff>>

\* a slip in the bound: `if attempt < retry`
NextConfig_OneMoreWait(jitter) ==
    IF config < Len(endpoint_configs)
    THEN /\ config' = config + 1
         /\ pc' = "request"
         /\ wait_time' = 0
    ELSE /\ config' = config
         /\ IF attempt < retry
            THEN /\ pc' = "retry_wait"
                 /\ wait_time' = RetryWait(attempt) + jitter
            ELSE /\ pc' = "fallback"
                 /\ wait_time' = 0

\* the inner loop moves on: the next configuration, or the end of the pass
\* (line 256: a backoff before the next attempt, none after the last)
NextConfig(jitter) ==
    IF config < Len(endpoint_configs)
    THEN /\ config' = config + 1
         /\ pc' = "request"
         /\ wait_time' = 0
    ELSE /\ config' = config
         /\ IF attempt < retry - 1
            THEN /\ pc' = "retry_wait"
                 /\ wait_time' = RetryWait(attempt) + jitter
            ELSE /\ pc' = "fallback"
                 /\ wait_time' = 0

\* lines 236-240: the wait after a 429, then `continue`
Backoff429(jitter) ==
    /\ pc = "backoff"
    /\ SetBot(Elapse(Bot, wait_time))
    /\ last_backoff' = RateLimitedWait(attempt)
    /\ NextConfig(jitter)
    /\ outcome' = "none"
    /\ response' = NotJson
    /\ UNCHANGED <<hist, loop, fetcher, main,
                   req, cache_key, attempt, result, origin, reqNo, liveNo,
                   req_calls, fallback_calls>>

\* lines 252-253: the small delay between endpoint attempts
EndpointDelay(jitter) ==
    /\ pc = "delay"
    /\ SetBot(Elapse(Bot, wait_time))
    /\ NextConfig(jitter)
    /\ outcome' = "none"
    /\ response' = NotJson
    /\ UNCHANGED <<hist, loop, fetcher, main,
                   req, cache_key, attempt, result, origin, reqNo, liveNo,
                   req_calls, fallback_calls, last_backoff>>

\* lines 255-259: the backoff between attempts
RetryBackoff ==
    /\ pc = "retry_wait"
    /\ SetBot(Elapse(Bot, wait_time))
    /\ last_backoff' = RetryWait(attempt)
    /\ attempt' = attempt + 1
    /\ config' = 1
    /\ pc' = "request"
    /\ wait_time' = 0
    /\ UNCHANGED <<hist, loop, fetcher, main,
                   req, cache_key, result, outcome, response, origin, reqNo,
                   liveNo,
                   req_calls, fallback_calls>>

\* _fetch_from_github_pages: the payload of a 200 answer, else None
_fetch_from_github_pages(snap) ==
    IF snap.status = "ok" THEN snap.data ELSE NoneResult

\* a slip: the snapshot fetch sent through the rate limiter
Fallback_RateLimited(snap) ==
    /\ pc = "fallback"
    /\ LET github_cache == _fetch_from_github_pages(snap)
           S == _rate_limit(Bot)
       IN IF Truthy(github_cache)
          THEN /\ result' = github_cache
               /\ origin' = "snapshot"
               /\ SetBot(S)
          ELSE /\ result' = NoneResult
               /\ origin' = "none"
               /\ SetBot([S EXCEPT !.stats.errors = @ + 1])
    /\ pc' = "done"
    /\ fallback_calls' = fallback_calls + 1
    /\ UNCHANGED <<hist, loop, fetcher, main,
                   req, cache_key, attempt, config, wait_time, outcome,
                   response, reqNo, liveNo, req_calls, last_backoff>>

\* a slip: the snapshot is asked for after every failed pass over the
\* endpoints, not after the last one
Fallback_Early(snap) ==
    /\ pc \in {"fallback", "retry_wait"}
    /\ LET github_cache == _fetch_from_github_pages(snap)
       IN IF Truthy(github_cache)
          THEN /\ result' = github_cache
               /\ origin' = "snapshot"
               /\ UNCHANGED stats
          ELSE /\ result' = NoneResult
               /\ origin' = "none"
               /\ stats' = [stats EXCEPT !.errors = @ + 1]
    /\ pc' = "done"
    /\ fallback_calls' = fallback_calls + 1
    /\ UNCHANGED <<hist, loop, fetcher, main,
                   memory_cache, disk_cache, since_last_request, req,
                   cache_key, attempt, config, wait_time, outcome, response,
                   reqNo, liveNo,
                   req_calls, last_backoff, last_live>>

\* lines 261-269: the published snapshot, else None
Fallback(snap) ==
    /\ pc = "fallback"
    /\ LET github_cache == _fetch_from_github_pages(snap)
       IN IF Truthy(github_cache)
          THEN /\ result' = github_cache
               /\ origin' = "snapshot"
               /\ UNCHANGED stats
          ELSE /\ result' = NoneResult
               /\ origin' = "none"
               /\ stats' = [stats EXCEPT !.errors = @ + 1]
    /\ pc' = "done"
    /\ fallback_calls' = fallback_calls + 1
    /\ UNCHANGED <<hist, loop, fetcher, main,
                   memory_cache, disk_cache, since_last_request, req,
                   cache_key, attempt, config, wait_time, outcome, response,
                   reqNo, liveNo,
                   req_calls, last_backoff, last_live>>

\* the random part of the sleep that follows an answer, and the disk
\* writes that can follow it
JitterFor(r) == IF r.status = 429 THEN Jitter429 ELSE JitterEndpoint
WritesFor(r) ==
    IF r.status = 200 /\ r.json # NotJson THEN DiskWrites ELSE {"written"}

Next ==
    \/ \E q \in Queries, c \in Countries, g \in Gaps : FetchNews(q, c, g)
    \/ \E r \in Upstream : \E w \in WritesFor(r), j \in JitterFor(r) :
          IssueCall(r, w, j)
    \/ \E j \in JitterRetry : Backoff429(j)
    \/ \E j \in JitterRetry : EndpointDelay(j)
    \/ RetryBackoff
    \/ \E s \in Snapshots : Fallback(s)

Spec == Init /\ [][Next]_vars

\* the steps of a call in flight; each one ends (a sleep is finite, a
\* network call has a timeout), so a call in flight keeps moving
Steps ==
    \/ \E r \in Upstream : \E w \in WritesFor(r), j \in JitterFor(r) :
          IssueCall(r, w, j)
    \/ \E j \in JitterRetry : Backoff429(j)
    \/ \E j \in JitterRetry : EndpointDelay(j)
    \/ RetryBackoff
    \/ \E s \in Snapshots : Fallback(s)

FairSpec == Spec /\ WF_vars(Steps)

TypeOK ==
    /\ pc \in {"idle", "request", "backoff", "delay", "retry_wait",
               "fallback", "done", "raised"}
    /\ attempt \in 0 .. retry - 1
    /\ config \in 1 .. Len(endpoint_configs)

\* ------------------------------------------- the methods called directly
\* _get_from_cache, _save_to_cache and _rate_limit are also called by
\* fetch_trending and translate_text, with other arguments than fetch_news
\* passes; CacheSpec calls the three methods directly, with the arguments
\* any caller can pass.
Keys == {_get_cache_key("technology", "RU", "news"),
         _get_cache_key("trending", "24", "trending")}
Payloads == {[kind |-> "dict", v |-> 1], [kind |-> "tuple", v |-> 1]}
TTLs == {0, TrendingMaxAge}
MaxAges == {0, TrendingMaxAge, TranslationMaxAge}
Ticks == {1, memory_cache_timeout, TrendingMaxAge}
Callers == {"news", "trending", "translation"}

\* the time since the first _rate_limit returned is kept up to here
SpanCap == MaxOps * min_request_interval

callVars == <<pc, req, cache_key, attempt, config, wait_time, result,
              outcome, response, origin, reqNo, liveNo, req_calls,
              fallback_calls, last_backoff>>
handlerVars == <<callVars, loop, fetcher, main>>

\* the record of a direct call; d seconds passed during it
Called(name, d) ==
    [NoCall EXCEPT !.name = name,
                   !.ops = hist.ops + 1,
                   !.acquires = hist.acquires,
                   !.span = IF hist.acquires >= 1
                            THEN Min(hist.span + d, SpanCap) ELSE 0,
                   !.derived = hist.derived,
                   !.prev = hist.prev]

\* self._save_to_cache(cache_key, data, cache_duration)
CachePut(key, data, ttl, write) ==
    /\ hist.ops < MaxOps
    /\ SetBot(_save_to_cache(Bot, key, data, ttl, write))
    /\ hist' = [Called("put", 0) EXCEPT !.key = key, !.data = data,
                                        !.ttl = ttl, !.write = write]
    /\ UNCHANGED handlerVars

\* self._get_from_cache(cache_key, max_age)
CacheGet(key, max_age) ==
    /\ hist.ops < MaxOps
    /\ LET got == _get_from_cache(Bot, key, max_age)
       IN /\ SetBot(got.S)
          /\ hist' = [Called("get", 0) EXCEPT !.key = key,
                         !.max_age = max_age, !.ret = got.ret,
                         !.tier = got.tier]
    /\ UNCHANGED handlerVars

\* self._rate_limit(), called by the operation `caller`
Acquire(caller) ==
    /\ hist.ops < MaxOps
    /\ SetBot(_rate_limit(Bot))
    /\ hist' = [Called("acquire", sleep_time(Bot)) EXCEPT
                   !.key = caller, !.acquires = hist.acquires + 1]
    /\ UNCHANGED handlerVars

\* d seconds pass between two calls
Tick(d) ==
    /\ hist.ops < MaxOps
    /\ SetBot(Elapse(Bot, d))
    /\ hist' = Called("tick", d)
    /\ UNCHANGED handlerVars

\* ---- fetch_trending (lines 296-332)
TrendingCap == 15
MockTrends == 10
TimelineLens == {0, MaxItems, TrendingCap + 1}
TrendDocs == {[timeline |-> [i \in 1 .. n |-> i]] : n \in TimelineLens}

\* what the GET of line 320 can do
TrendAnswers ==
    {[exc |-> "ConnectionError", status |-> 0, json |-> NotJson],
     [exc |-> "none", status |-> 500, json |-> NotJson]}
    \cup {[exc |-> "none", status |-> 200, json |-> d] :
             d \in TrendDocs \cup {NotJson}}

_format_trending(raw_data, stamp) ==
    [timestamp |-> stamp,
     trends |-> SubSeq(raw_data.timeline, 1,
                       Min(Len(raw_data.timeline), TrendingCap)),
     source |-> "GDELT API"]

_generate_mock_trending(stamp) ==
    [timestamp |-> stamp,
     trends |-> [i \in 1 .. MockTrends |-> i],
     source |-> "Mock Data (API Unavailable)"]

\* line 137: the parameters of _save_to_cache. A call that names another
\* keyword raises TypeError before the body runs.
SaveParameters == {"cache_key", "data", "cache_duration"}
Binds(keyword) == keyword \in SaveParameters

\* returns [S |-> the bot afterwards, ret |-> what the caller gets,
\* tier |-> who answered, slept |-> the seconds _rate_limit slept]
fetch_trending(S, r, write, stamp) ==
    LET key == _get_cache_key("trending", "24", "trending")
        cached == _get_from_cache(S, key, TrendingMaxAge)
        limited == _rate_limit(cached.S)
        slept == sleep_time(cached.S)
    IN IF Truthy(cached.ret)
       THEN [S |-> cached.S, ret |-> cached.ret, tier |-> cached.tier,
             slept |-> 0]
       ELSE IF Raises(r) = "none" /\ r.status = 200
       THEN LET formatted == _format_trending(r.json, stamp)
            IN IF Binds("max_age")       \* line 324
               THEN [S |-> _save_to_cache(limited, key, formatted,
                                          TrendingMaxAge, write),
                     ret |-> formatted, tier |-> "upstream",
                     slept |-> slept]
               ELSE [S |-> limited, ret |-> _generate_mock_trending(stamp),
                     tier |-> "upstream", slept |-> slept]
       ELSE [S |-> limited, ret |-> _generate_mock_trending(stamp),
             tier |-> "upstream", slept |-> slept]

\* self.fetch_trending()
FetchTrending(r, write) ==
    /\ hist.ops < MaxOps
    /\ LET out == fetch_trending(Bot, r, write, hist.ops + 1)
       IN /\ SetBot(out.S)
          /\ hist' = [Called("trending", out.slept) EXCEPT
                         !.key = _get_cache_key("trending", "24", "trending"),
                         !.data = r,
                         !.ret = out.ret,
                         !.tier = out.tier,
                         !.acquires = IF out.tier = "upstream"
                                      THEN hist.acquires + 1
                                      ELSE hist.acquires]
    /\ UNCHANGED handlerVars

\* ---- translate_text (lines 334-384)
PyText(text) == [kind |-> "str", text |-> text]
Texts == {"Hello world", "Hi"}
TextLen(text) == IF text = "Hi" THEN 2 ELSE 11
MinTextLen == 3

\* what a translation API can do: raise, answer another status, or answer
\* 200 with a body that is no JSON, that has the translation, or that
\* gives the text back
TransAnswers ==
    {[exc |-> "ConnectionError", status |-> 0, body |-> "none"],
     [exc |-> "none", status |-> 500, body |-> "none"]}
    \cup {[exc |-> "none", status |-> 200, body |-> b] :
             b \in {"not_json", "translated", "same"}}

\* data.get('translatedText', text)
Translated(a, text) ==
    IF a.body = "translated" THEN PyText("ru " \o text) ELSE PyText(text)
Answered(a) == a.exc = "none" /\ a.status = 200 /\ a.body # "not_json"

\* returns [S |-> the bot afterwards, ret |-> what the caller gets,
\* tier |-> who answered, slept |-> the seconds the limiter slept,
\* calls |-> the translation APIs called]
translate_text(S, text, target_lang, first, second, write) ==
    LET key == _get_cache_key(text, target_lang, "translation")
        cached == _get_from_cache(S, key, TranslationMaxAge)
        S1 == _rate_limit(cached.S)
        slept1 == sleep_time(cached.S)
        S2 == _rate_limit(S1)
        slept2 == sleep_time(S1)
        translated1 == Translated(first, text)
        translated2 == Translated(second, text)
    IN IF TextLen(text) < MinTextLen             \* line 336
       THEN [S |-> S, ret |-> PyText(text), tier |-> "none", slept |-> 0,
             calls |-> 0]
       ELSE IF Truthy(cached.ret)
       THEN [S |-> cached.S, ret |-> cached.ret, tier |-> cached.tier,
             slept |-> 0, calls |-> 0]
       ELSE IF Answered(first) /\ Binds("max_age")          \* line 364
       THEN [S |-> _save_to_cache(S1, key, translated1,
                                  TranslationMaxAge, write),
             ret |-> translated1, tier |-> "upstream", slept |-> slept1,
             calls |-> 1]
       ELSE IF /\ Answered(second)
               /\ translated2 # PyText(text)
               /\ Binds("max_age")                          \* line 377
       THEN [S |-> _save_to_cache(S2, key, translated2,
                                  TranslationMaxAge, write),
             ret |-> translated2, tier |-> "upstream",
             slept |-> slept1 + slept2, calls |-> 2]
       ELSE [S |-> S2, ret |-> PyText(text), tier |-> "upstream",
             slept |-> slept1 + slept2, calls |-> 2]

\* an API that translate_text did not call (it returned at line 337 or 343,
\* or after the first API at line 365)
NotCalled == [exc |-> "none", status |-> 0, body |-> "none"]

\* self.translate_text(text, 'ru'); it counts as one direct call for
\* every API it calls
TranslateText(text, first, second, write) ==
    /\ hist.ops + 1 < MaxOps
    /\ LET out == translate_text(Bot, text, "ru", first, second, write)
       IN /\ SetBot(out.S)
          /\ hist' = [Called("translate", out.slept) EXCEPT
                         !.key = _get_cache_key(text, "ru", "translation"),
                         !.data = [text |-> PyText(text),
                                   first |-> IF out.calls >= 1 THEN first
                                             ELSE NotCalled,
                                   second |-> IF out.calls = 2 THEN second
                                              ELSE NotCalled],
                         !.ret = out.ret,
                         !.tier = out.tier,
                         !.ops = hist.ops + (IF out.calls = 2 THEN 2 ELSE 1),
                         !.acquires = hist.acquires + out.calls,
                         !.span = IF hist.acquires >= 1
                                  THEN Min(hist.span + out.slept, SpanCap)
                                  ELSE IF out.calls = 2
                                  THEN sleep_time(_rate_limit(Bot))
                                  ELSE 0]
    /\ UNCHANGED handlerVars

CacheNext ==
    \/ \E r \in TrendAnswers, w \in DiskWrites : FetchTrending(r, w)
    \/ \E t \in Texts, a \in TransAnswers, b \in TransAnswers,
          w \in DiskWrites : TranslateText(t, a, b, w)
    \/ \E k \in Keys, d \in Payloads, t \in TTLs, w \in DiskWrites :
          CachePut(k, d, t, w)
    \/ \E k \in Keys, m \in MaxAges : CacheGet(k, m)
    \/ \E c \in Callers : Acquire(c)
    \/ \E d \in Ticks : Tick(d)

CacheSpec == Init /\ [][CacheNext]_vars

\* ------------------------------------------------- the pure functions
\* _get_cache_key is applied to the parameters any caller can pass:
\* fetch_news passes the user's query text and country as received,
\* translate_text passes the text and the target language. Each query
\* text is listed with the query it stands for (lower case, trimmed,
\* single spaces), which only the claims use.
KeyQueries ==
    {[text |-> "climate change",   logical |-> "climate change"],
     [text |-> "Climate Change",   logical |-> "climate change"],
     [text |-> " climate change ", logical |-> "climate change"],
     [text |-> "climate  change",  logical |-> "climate change"],
     [text |-> "a",                logical |-> "a"],
     [text |-> "a_B",              logical |-> "a_b"]}
KeyCountries == {None, "C", "B_C"}
EndpointTypes == {"news", "translation"}

\* a slip: the key string carries the time of the call
DeriveKey_Timed(q, country, endpoint_type) ==
    /\ hist' = [hist EXCEPT
           !.name = "key",
           !.prev = hist.derived,
           !.derived =
               [query |-> q, country |-> country,
                endpoint_type |-> endpoint_type,
                key |-> _get_cache_key(q.text, country, endpoint_type)
                        \o (IF since_last_request < min_request_interval
                            THEN "_now" ELSE ""),
                at |-> hist.acquires]]
    /\ SetBot(Bot)
    /\ UNCHANGED handlerVars

\* self._get_cache_key(query, country, endpoint_type); the record keeps
\* the latest derivation and the one before it
DeriveKey(q, country, endpoint_type) ==
    /\ hist' = [hist EXCEPT
           !.name = "key",
           !.prev = hist.derived,
           !.derived =
               [query |-> q, country |-> country,
                endpoint_type |-> endpoint_type,
                key |-> _get_cache_key(q.text, country, endpoint_type),
                at |-> hist.acquires]]
    /\ SetBot(Bot)
    /\ UNCHANGED handlerVars

PureNext ==
    \/ \E q \in KeyQueries, c \in KeyCountries, t \in EndpointTypes :
          DeriveKey(q, c, t)
    \/ Acquire("news")

PureSpec == Init /\ [][PureNext]_vars

\* ---- _format_articles, item by item (lines 386-409)
\* Spec takes the items of an upstream answer as well formed. Here an
\* item is what the JSON can hold in its place: an object whose expected
\* keys are given, missing, null or a number, or something that is no
\* object. A value is [type, text], as Python would see it.
Fields == {"title", "url", "domain", "seendate", "sourcecountry",
           "language", "content", "themes"}
Str(text) == [type |-> "str", text |-> text]
PyNone == [type |-> "NoneType", text |-> ""]
PyInt == [type |-> "int", text |-> "7"]
PyList(text) == [type |-> "list", text |-> text]
Falsy(v) == v = PyNone \/ v = Str("") \/ v = PyList("")

Complete == [object |-> TRUE, f |-> [k \in Fields |-> "given"]]
Bare == [object |-> TRUE, f |-> [k \in Fields |-> "missing"]]
NotObject == [object |-> FALSE, f |-> [k \in Fields |-> "missing"]]
With(k, state) == [Complete EXCEPT !.f[k] = state]
ItemShapes ==
    {Complete, Bare, NotObject,
     With("title", "missing"), With("url", "missing"),
     With("title", "null"), With("themes", "null"),
     With("seendate", "number")}

\* article.get(key, default)
Get(article, key, default) ==
    CASE article.f[key] = "missing" -> default
      [] article.f[key] = "null" -> PyNone
      [] article.f[key] = "number" -> PyInt
      [] OTHER -> IF key = "themes" THEN PyList(key) ELSE Str(key)

Raised(error) == [raised |-> error]

\* lines 470-486; a text of the items is long enough to be a date
_format_date(date_str) ==
    IF Falsy(date_str) THEN Str("Unknown")
    ELSE IF date_str.type # "str" THEN Raised("TypeError")
    ELSE Str("date " \o date_str.text)

\* line 398: article.get('content', '')[:200] + '...' if the content is
\* truthy, else ''
Summary(article) ==
    LET content == Get(article, "content", Str(""))
    IN IF Falsy(content) THEN Str("")
       ELSE IF content.type # "str" THEN Raised("TypeError")
       ELSE Str(content.text \o "...")

\* line 399: article.get('themes', [])[:3]
Themes(article) ==
    LET themes == Get(article, "themes", PyList(""))
    IN IF themes.type \in {"list", "str"} THEN themes
       ELSE Raised("TypeError")

\* lines 391-400: the dictionary built for one item, or what is raised
FormatEntry(article) ==
    IF ~article.object THEN Raised("AttributeError")
    ELSE LET date == _format_date(Get(article, "seendate", Str("")))
             summary == Summary(article)
             themes == Themes(article)
         IN IF "raised" \in DOMAIN date THEN date
            ELSE IF "raised" \in DOMAIN summary THEN summary
            ELSE IF "raised" \in DOMAIN themes THEN themes
            ELSE [title |-> Get(article, "title", Str("No title")),
                  url |-> Get(article, "url", Str("#")),
                  source |-> Get(article, "domain", Str("Unknown")),
                  date |-> date,
                  country |-> Get(article, "sourcecountry", Str("Unknown")),
                  language |-> Get(article, "language", Str("Unknown")),
                  summary |-> summary,
                  themes |-> themes]

\* lines 388-409 for the list under 'articles': the first error of the
\* loop leaves _format_articles
FormatEntries(items) ==
    LET n == Min(Len(items), ArticleCap)
        entries == [i \in 1 .. n |-> FormatEntry(items[i])]
    IN IF \E i \in 1 .. n : "raised" \in DOMAIN entries[i]
       THEN entries[CHOOSE i \in 1 .. n :
                       /\ "raised" \in DOMAIN entries[i]
                       /\ \A j \in 1 .. i - 1 :
                             "raised" \notin DOMAIN entries[j]]
       ELSE [total |-> n, articles |-> entries, source |-> "GDELT API"]

RECURSIVE ListsOf(_, _)
ListsOf(S, n) ==
    IF n = 0 THEN {<<>>}
    ELSE LET shorter == ListsOf(S, n - 1)
         IN shorter \cup {Append(l, x) : l \in shorter, x \in S}

\* the lists under 'articles': short lists of every shape, and one list
\* longer than the cap
RawLists ==
    ListsOf(ItemShapes, MaxItems + 1)
    \cup {[i \in 1 .. ArticleCap + 1 |-> Complete]}

\* self._format_articles(raw_data, query, country), once in a run
FormatResponse(items) ==
    /\ hist = NoCall
    /\ hist' = [NoCall EXCEPT !.name = "format",
                              !.data = [articles |-> items],
                              !.ret = FormatEntries(items)]
    /\ SetBot(Bot)
    /\ UNCHANGED handlerVars

FormatNext == \E items \in RawLists : FormatResponse(items)

FormatSpec == Init /\ [][FormatNext]_vars

\* ------------------------------------------------------ the event loop
\* run_polling (lines 746-779) hands every update to its handler on one
\* asyncio event loop. A handler is a coroutine: it owns the loop's only
\* thread from where it is resumed to its next await, and the code it
\* calls in between (fetch_news, with _rate_limit and every time.sleep)
\* runs on that thread. LoopSpec follows several /news commands through
\* news_command and keeps of fetch_news what takes time or decides the
\* next step; the payloads, the cache and the counters are those of Spec.
\* The requests of LoopSpec miss the cache. The library starts a handler
\* while another is suspended only if concurrent updates are enabled,
\* which this code does not do; LoopSpec allows it, the weaker assumption.
SleepPositions == {"limiter_sleep", "backoff", "delay", "retry_wait"}
CallOutcomes == {"success", "rate_limited", "failed"}

\* a slip: the limiter waits with `await asyncio.sleep(sleep_time)`
SleepBlocks_LimiterAwaits(position) ==
    position \in SleepPositions \ {"limiter_sleep"}

\* lines 96, 239, 253, 259: every wait is a time.sleep, which returns
\* to its caller and never to the event loop
SleepBlocks(position) == position \in SleepPositions

Free == loop.thread = NoTask
Running(t) == loop.thread = t
Sleepers == {t \in Tasks : loop.at[t] \in SleepPositions /\ loop.wake[t] > 0}
ThreadAfter(t, position) == IF SleepBlocks(position) THEN t ELSE NoTask
MinWake == CHOOSE d \in {loop.wake[t] : t \in Sleepers} :
              \A t \in Sleepers : d <= loop.wake[t]

loopVars == <<hist, callVars, fetcher, main>>

\* news_command up to its first await (lines 565-578)
Start(t) ==
    /\ Free
    /\ loop.at[t] = "queued"
    /\ loop' = [loop EXCEPT !.at[t] = "suspended"]
    /\ SetBot(Bot)
    /\ UNCHANGED loopVars

\* the reply was sent: the handler goes on into fetch_news (lines 580-593)
Resume(t) ==
    /\ Free
    /\ loop.at[t] = "suspended"
    /\ loop' = [loop EXCEPT !.thread = t, !.at[t] = "limiter"]
    /\ SetBot(Bot)
    /\ UNCHANGED loopVars

\* _rate_limit, lines 91-96: the read, and the start of the wait
LimiterRead(t) ==
    /\ Running(t)
    /\ loop.at[t] = "limiter"
    /\ IF sleep_time(Bot) > 0
       THEN loop' = [loop EXCEPT
                       !.at[t] = "limiter_sleep",
                       !.wake[t] = sleep_time(Bot),
                       !.thread = ThreadAfter(t, "limiter_sleep")]
       ELSE loop' = [loop EXCEPT !.at[t] = "limiter_update"]
    /\ SetBot(Bot)
    /\ UNCHANGED loopVars

\* the clock runs until the first sleeper is due; nothing else runs while
\* a sleeper owns the thread
Pass ==
    /\ Sleepers # {}
    /\ Free \/ loop.thread \in Sleepers
    /\ loop' = [loop EXCEPT !.wake = [t \in Tasks |->
                    IF t \in Sleepers THEN loop.wake[t] - MinWake
                    ELSE loop.wake[t]]]
    /\ SetBot(Elapse(Bot, MinWake))
    /\ UNCHANGED loopVars

\* a wait is over: the code after the sleep runs
Wake(t) ==
    /\ loop.at[t] \in SleepPositions
    /\ loop.wake[t] = 0
    /\ Free \/ Running(t)
    /\ loop' = [loop EXCEPT
          !.thread = t,
          !.at[t] = CASE loop.at[t] = "limiter_sleep" -> "limiter_update"
                      [] loop.at[t] = "retry_wait" -> "call"
                      [] OTHER -> "after_config"]
    /\ SetBot(Bot)
    /\ UNCHANGED loopVars

\* _rate_limit, line 97: the update, and the return
LimiterUpdate(t) ==
    /\ Running(t)
    /\ loop.at[t] = "limiter_update"
    /\ loop' = [loop EXCEPT !.at[t] = "call", !.returns = @ + 1]
    /\ SetBot([Bot EXCEPT !.since_last = 0])
    /\ UNCHANGED loopVars

\* lines 209-253: one upstream call and what the code does with its answer
Call(t, answer, jitter) ==
    /\ Running(t)
    /\ loop.at[t] = "call"
    /\ LET a == loop.calls[t] \div Len(endpoint_configs)
       IN CASE answer = "success" ->
                 loop' = [loop EXCEPT !.at[t] = "finished", !.calls[t] = 0,
                                      !.thread = NoTask]
            [] answer = "rate_limited" ->
                 loop' = [loop EXCEPT
                            !.at[t] = "backoff", !.calls[t] = @ + 1,
                            !.wake[t] = RateLimitedWait(a) + jitter,
                            !.thread = ThreadAfter(t, "backoff")]
            [] OTHER ->
                 loop' = [loop EXCEPT
                            !.at[t] = "delay", !.calls[t] = @ + 1,
                            !.wake[t] = jitter,
                            !.thread = ThreadAfter(t, "delay")]
    /\ SetBot(Bot)
    /\ UNCHANGED loopVars

\* lines 207-208 and 255-261: the next endpoint, the wait before the next
\* attempt, or the fallback after the last one
AfterConfig(t, jitter) ==
    /\ Running(t)
    /\ loop.at[t] = "after_config"
    /\ LET done == loop.calls[t]
           a == done \div Len(endpoint_configs) - 1
       IN IF done % Len(endpoint_configs) # 0
          THEN loop' = [loop EXCEPT !.at[t] = "call"]
          ELSE IF a < retry - 1
          THEN loop' = [loop EXCEPT
                          !.at[t] = "retry_wait",
                          !.wake[t] = RetryWait(a) + jitter,
                          !.thread = ThreadAfter(t, "retry_wait")]
          ELSE loop' = [loop EXCEPT !.at[t] = "fallback"]
    /\ SetBot(Bot)
    /\ UNCHANGED loopVars

\* lines 261-269 and the replies of news_command after fetch_news
Finish(t) ==
    /\ Running(t)
    /\ loop.at[t] = "fallback"
    /\ loop' = [loop EXCEPT !.at[t] = "finished", !.calls[t] = 0,
                            !.thread = NoTask]
    /\ SetBot(Bot)
    /\ UNCHANGED loopVars

\* a second passes with no handler running
Idle ==
    /\ Free
    /\ Sleepers = {}
    /\ since_last_request < min_request_interval
    /\ loop' = loop
    /\ SetBot(Elapse(Bot, 1))
    /\ UNCHANGED loopVars

TaskStep(t) ==
    \/ Start(t)
    \/ Resume(t)
    \/ LimiterRead(t)
    \/ Wake(t)
    \/ LimiterUpdate(t)
    \/ \E o \in CallOutcomes :
          \E j \in (IF o = "rate_limited" THEN Jitter429
                    ELSE JitterEndpoint) : Call(t, o, j)
    \/ \E j \in JitterRetry : AfterConfig(t, j)
    \/ Finish(t)

LoopNext ==
    \/ \E t \in Tasks : TaskStep(t)
    \/ Pass
    \/ Idle

LoopSpec == Init /\ [][LoopNext]_vars

\* ------------------------------------------------------------------ claims
InMemory(k, d) == k \in DOMAIN memory_cache /\ memory_cache[k].data = d
OnDisk(k, d) ==
    /\ k \in DOMAIN disk_cache
    /\ ~disk_cache[k].corrupt
    /\ disk_cache[k].data = d
NoReadableFile(k) == k \notin DOMAIN disk_cache \/ disk_cache[k].corrupt
Returned == pc = "done"
AllCalls == retry * Len(endpoint_configs)
LiveLabels == {"GDELT API", "GDELT Summary"}

SourceKind(label) == IF label \in LiveLabels THEN "live" ELSE label

AnsweredWithItems ==
    /\ outcome \in {"success", "empty"}
    /\ response # NotJson
    /\ Len(response.articles) \in 1 .. ArticleCap

\* C4 as stated: a 200 answer with n usable items (1 <= n <= 10) is
\* returned with exactly those items and is afterwards in both tiers.
C4_ItemsReturnedAndInBothTiers ==
    AnsweredWithItems =>
        /\ Returned
        /\ result.articles = response.articles
        /\ InMemory(cache_key, result)
        /\ OnDisk(cache_key, result)

\* C4 as amended: for the two article-list configurations the n items are
\* returned and are in the memory tier, and in the disk tier unless the
\* disk write failed.
C4_ItemsReturnedAndCached ==
    (AnsweredWithItems /\ ~IsSummaryUrl(endpoint_configs[config])) =>
        /\ Returned
        /\ origin = "live"
        /\ result.articles = response.articles
        /\ result.total = Len(response.articles)
        /\ InMemory(cache_key, result)
        /\ OnDisk(cache_key, result) \/ NoReadableFile(cache_key)

C4_Witness ==
    /\ AnsweredWithItems
    /\ config = 2
    /\ Len(result.articles) = 2
    /\ OnDisk(cache_key, result)

\* C5: a fetch_news call that begins less than memory_cache_timeout after
\* a live answer for its key returns that answer's payload at once, from
\* the cache, without an upstream call.
C5_SecondCallFromMemory ==
    [][(/\ reqNo' = reqNo + 1
        /\ cache_key' \in DOMAIN last_live'
        /\ last_live'[cache_key'].age < memory_cache_timeout)
       => (/\ pc' = "done"
          /\ origin' = "cache"
          /\ result' = last_live'[cache_key'].data
          /\ req_calls' = 0
          /\ stats'.api_calls = stats.api_calls)]_vars

C5_Witness ==
    /\ Returned
    /\ origin = "cache"
    /\ req_calls = 0
    /\ cache_key \in DOMAIN last_live
    /\ last_live[cache_key].age = memory_cache_timeout - 1
    /\ result = last_live[cache_key].data

\* where the inner loop goes after the sleep at (attempt, config)
GoesToNextConfig ==
    /\ attempt' = attempt
    /\ IF config < Len(endpoint_configs)
       THEN pc' = "request" /\ config' = config + 1
       ELSE pc' = IF attempt < retry - 1 THEN "retry_wait" ELSE "fallback"

GoesToNextAttempt ==
    pc' = "request" => (attempt' = attempt + 1 /\ config' = 1)

\* C6 as stated: after a 429 the request waits 5 * 2^attempt plus jitter
\* and then starts the next attempt, not the next configuration.
C6_RateLimitedStartsNextAttempt ==
    [][outcome = "rate_limited" => (
          /\ wait_time - RateLimitBase * (2 ^ attempt) \in 1 .. 5
          /\ GoesToNextAttempt)]_vars

\* C6 as amended: after a 429 the request waits 5 * 2^attempt plus a jitter
\* of 1..5 s and then goes on with the next configuration of the same
\* attempt; the next attempt starts only after the last configuration.
C6_RateLimitedTriesNextConfig ==
    [][outcome = "rate_limited" => (
          /\ pc = "backoff"
          /\ wait_time - RateLimitBase * (2 ^ attempt) \in 1 .. 5
          /\ GoesToNextConfig)]_vars

C6_Witness ==
    pc = "request" /\ attempt = 0 /\ config = 2 /\ last_backoff = RateLimitBase

\* C7 as stated: a timeout or connection failure is followed by the wait
\* 5 * 2^attempt plus jitter and then by the next attempt.
C7_NetworkErrorBacksOff ==
    [][(outcome \in {"Timeout", "ConnectionError"}) => (
          /\ wait_time - RateLimitBase * (2 ^ attempt) \in 1 .. 5
          /\ GoesToNextAttempt)]_vars

\* C7 as amended: a timeout or connection failure is followed by the
\* delay of 1..3 s between endpoint attempts, not by an exponential
\* backoff, and then by the next configuration of the same attempt.
C7_NetworkErrorTriesNextConfig ==
    [][(outcome \in {"Timeout", "ConnectionError"}) => (
          /\ pc = "delay"
          /\ wait_time \in 1 .. 3
          /\ GoesToNextConfig)]_vars

C7_Witness ==
    pc = "delay" /\ outcome = "Timeout" /\ attempt = 1 /\ config = 1

\* C8: a failure that is not retryable (a status other than 200 and 429,
\* a 200 answer with no article, a body that is no JSON) leads to the next
\* configuration of the same attempt; nothing is returned for it, and no
\* live result is empty.
C8_FailureTriesNextConfig ==
    /\ [](Returned /\ origin = "live" => Len(result.articles) > 0)
    /\ [][(outcome \in {"status_error", "empty", "ValueError"}) => (
             /\ pc = "delay"
             /\ result = NoneResult
             /\ GoesToNextConfig)]_vars

C8_Witness ==
    pc = "delay" /\ outcome = "empty" /\ config = 1 /\ response # NotJson

\* C9: a call makes at most retry passes over the configuration list, the
\* fallback chain runs only after all retry * 3 calls failed and then
\* exactly once, and every call in flight returns.
C9_Bounded ==
    /\ attempt \in 0 .. retry - 1
    /\ req_calls <= AllCalls
    /\ fallback_calls <= 1
    /\ (pc = "fallback" \/ fallback_calls = 1) =>
          (req_calls = AllCalls /\ attempt = retry - 1)
    /\ (Returned /\ origin \in {"snapshot", "none"}) => fallback_calls = 1
    /\ (Returned /\ origin \in {"cache", "live"}) => fallback_calls = 0
    /\ pc \in {"request", "backoff", "delay"} =>
          req_calls = attempt * Len(endpoint_configs) + config
                      - (IF pc = "request" THEN 1 ELSE 0)

C9_BoundedAndTerminates ==
    /\ []C9_Bounded
    /\ (pc = "request") ~> Returned

C9_Witness ==
    /\ Returned
    /\ fallback_calls = 1
    /\ req_calls = AllCalls
    /\ last_backoff = RateLimitBase * 4
    /\ origin = "snapshot"

\* C10: without the jitter, the 429 wait is 5 * 2^attempt, the wait
\* between attempts is 10 * 2^attempt, and within one call no backoff
\* wait is shorter than an earlier one.
C10_BackoffNeverShrinks ==
    [][(/\ pc = "backoff" => last_backoff' = 5 * (2 ^ attempt)
        /\ pc = "retry_wait" => last_backoff' = 10 * (2 ^ attempt)
        /\ reqNo' = reqNo => last_backoff' >= last_backoff)]_vars

C10_Witness ==
    pc = "request" /\ attempt = 2 /\ config = 3 /\ last_backoff = 20

\* C11 as stated: two consecutive upstream calls of one fetch_news request
\* (to the next configuration, or to the first one of the next attempt)
\* are at least min_request_interval apart: the sleep between them is no
\* shorter than that.
C11_CallsSpacedByInterval ==
    [][(pc' = "request" /\ reqNo' = reqNo /\ req_calls >= 1)
          => wait_time >= min_request_interval]_vars

\* C12: _rate_limit returns no earlier than min_request_interval after the
\* previous _rate_limit returned, whichever operation calls it, so N calls
\* in a row span at least (N - 1) * min_request_interval.
C12_AcquiresSpaced ==
    /\ [](hist.acquires >= 1 =>
             hist.span >= (hist.acquires - 1) * min_request_interval)
    /\ [][(hist'.acquires = hist.acquires + 1) => (
             /\ since_last_request' = 0
             /\ (hist.acquires >= 1 /\ hist'.span < SpanCap) =>
                   since_last_request + (hist'.span - hist.span)
                      >= min_request_interval)]_vars

C12_Witness ==
    /\ hist.name = "acquire"
    /\ hist.key = "translation"
    /\ hist.acquires = 3
    /\ hist.span = 2 * min_request_interval

\* C13: the rate limiter runs only before a live upstream call: a
\* fetch_news call answered from the cache returns at once and does not
\* reset last_request_time, the snapshot fetch leaves it alone, and a call
\* that missed the cache has just passed the limiter.
C13_LimiterOnlyBeforeLive ==
    [][/\ (reqNo' = reqNo + 1 /\ origin' = "cache") =>
             /\ pc' = "done"
             /\ req_calls' = 0
             /\ since_last_request' >= since_last_request
       /\ (reqNo' = reqNo + 1 /\ pc' = "request") => since_last_request' = 0
       /\ pc = "fallback" => since_last_request' = since_last_request]_vars

C13_Witness ==
    /\ Returned
    /\ origin = "cache"
    /\ stats.cache_hits = 1
    /\ since_last_request = 1

\* C14 as stated: a payload answered from the cache is younger than the
\* TTL of the read (cache_duration for fetch_news), counted from the
\* _save_to_cache that stored it; the file's cached_at is that moment.
C14_NeverServesExpired ==
    (Returned /\ origin = "cache" /\ OnDisk(cache_key, result))
        => disk_cache[cache_key].age < cache_duration

\* C15 as stated: the TTL stored with an entry (expires_in) decides: a read
\* serves the entry of a cache file only while the file is younger than
\* its expires_in, and a read of a file younger than that is served.
C15_DeclaredTtlDecides ==
    /\ []((hist.name = "get" /\ OnDisk(hist.key, hist.ret)) =>
             disk_cache[hist.key].age < disk_cache[hist.key].expires_in)
    /\ [][(/\ hist'.name = "get"
           /\ hist'.key \in DOMAIN disk_cache
           /\ ~disk_cache[hist'.key].corrupt
           /\ disk_cache[hist'.key].age < disk_cache[hist'.key].expires_in)
          => hist'.ret # NoneResult]_vars

\* C16: right after _save_to_cache(key, data), and as long as less than
\* memory_cache_timeout has passed, _get_from_cache(key, max_age) returns
\* exactly data for every max_age; the memory tier is the one that answers.
C16_RoundTrip ==
    /\ [](hist.name = "put" =>
            \A m \in MaxAges, d \in {0, memory_cache_timeout - 1} :
               LET got == _get_from_cache(Elapse(Bot, d), hist.key, m)
               IN got.ret = hist.data /\ got.tier = "memory")
    /\ [][(hist.name = "put" /\ hist'.name = "get" /\ hist'.key = hist.key)
          => (hist'.ret = hist.data /\ memory_cache' = memory_cache)]_vars

C16_Witness ==
    /\ hist.name = "get"
    /\ hist.ops = 2
    /\ hist.max_age = TrendingMaxAge
    /\ hist.tier = "memory"
    /\ hist.ret = [kind |-> "tuple", v |-> 1]
    /\ hist.key \notin DOMAIN disk_cache

\* C17 as stated: when the lookup of fetch_news found only expired entries
\* (a miss: the call is about to go upstream), neither tier holds an entry
\* for the key any more.
C17_ExpiredEntryRemoved ==
    (pc = "request" /\ req_calls = 0) =>
        /\ cache_key \notin DOMAIN memory_cache
        /\ NoReadableFile(cache_key)

\* C18: _save_to_cache writes both tiers and a failed disk write is
\* swallowed: whatever the disk write did, the call returned and the
\* memory tier holds the new payload with a fresh timestamp; a disk write
\* that went through left a file with the payload, its age and its TTL.
C18_SaveKeepsMemoryCopy ==
    hist.name = "put" =>
        /\ pc # "raised"
        /\ InMemory(hist.key, hist.data)
        /\ memory_cache[hist.key].age = 0
        /\ hist.write = "written" =>
              /\ OnDisk(hist.key, hist.data)
              /\ disk_cache[hist.key].age = 0
              /\ disk_cache[hist.key].expires_in =
                    (IF hist.ttl = 0 THEN cache_duration ELSE hist.ttl)
        /\ hist.write = "broke_off" => ~OnDisk(hist.key, hist.data)

C18_Witness ==
    /\ hist.name = "put"
    /\ hist.write = "open_failed"
    /\ hist.ttl = TrendingMaxAge
    /\ InMemory(hist.key, hist.data)
    /\ hist.key \notin DOMAIN disk_cache

\* C19: when the cache file of the key cannot be read or parsed and the
\* memory tier has no fresh entry, the lookup of fetch_news is a miss: no
\* exception, nothing returned, no hit counted, the file left where it is,
\* and the call goes on to the live path.
C19_ReadErrorIsMiss ==
    [][(/\ reqNo' = reqNo + 1
        /\ cache_key' \in DOMAIN disk_cache
        /\ disk_cache[cache_key'].corrupt
        /\ cache_key' \in DOMAIN memory_cache' =>
              ~MemFresh(memory_cache'[cache_key'].age))
       => (/\ pc' = "request"
           /\ result' = NoneResult
           /\ origin' # "cache"
           /\ stats'.cache_hits = stats.cache_hits
           /\ disk_cache' = disk_cache)]_vars

C19_Witness ==
    /\ pc = "request"
    /\ req_calls = 0
    /\ liveNo = 2
    /\ cache_key \in DOMAIN memory_cache
    /\ cache_key \in DOMAIN disk_cache
    /\ disk_cache[cache_key].corrupt

\* the memory tier has no fresh entry for k
MemoryMiss(k) ==
    k \notin DOMAIN memory_cache \/ ~MemFresh(memory_cache[k].age)

\* C20: a read that misses the memory tier and finds an unexpired file
\* returns the file's payload (as json.load gives it) and stores it in the
\* memory tier with a fresh timestamp; the next read of the key is
\* answered by the memory tier with the same payload.
C20_DiskHitFillsMemory ==
    /\ []((hist.name = "get" /\ hist.tier = "disk") =>
             /\ InMemory(hist.key, hist.ret)
             /\ memory_cache[hist.key].age = 0
             /\ hist.ret = JsonImage(disk_cache[hist.key].data)
             /\ \A m \in MaxAges :
                   LET again == _get_from_cache(Bot, hist.key, m)
                   IN again.tier = "memory" /\ again.ret = hist.ret)
    /\ [][(/\ hist'.name = "get"
           /\ MemoryMiss(hist'.key)
           /\ hist'.key \in DOMAIN disk_cache
           /\ ~disk_cache[hist'.key].corrupt
           /\ DiskFresh(disk_cache[hist'.key].age, hist'.max_age))
          => hist'.tier = "disk"]_vars
    /\ [][(/\ hist.name = "get" /\ hist.tier = "disk"
           /\ hist'.name = "get" /\ hist'.key = hist.key)
          => (hist'.tier = "memory" /\ hist'.ret = hist.ret)]_vars

C20_Witness ==
    /\ hist.name = "get"
    /\ hist.tier = "memory"
    /\ hist.ret = [kind |-> "list", v |-> 1]
    /\ memory_cache[hist.key].age = 0
    /\ OnDisk(hist.key, [kind |-> "tuple", v |-> 1])
    /\ disk_cache[hist.key].age = memory_cache_timeout

\* ------------------------------------------------ claims on the key deriver
HavePair == hist.derived # NoneResult /\ hist.prev # NoneResult
SameQuery ==
    /\ hist.derived.query.logical = hist.prev.query.logical
    /\ hist.derived.country = hist.prev.country
    /\ hist.derived.endpoint_type = hist.prev.endpoint_type
SameTriple ==
    /\ hist.derived.query.text = hist.prev.query.text
    /\ hist.derived.country = hist.prev.country
    /\ hist.derived.endpoint_type = hist.prev.endpoint_type

\* C21 as stated: two query texts that differ only in letter case, in
\* leading or trailing whitespace or in runs of internal whitespace get
\* the same cache key (for the same country and endpoint type).
C21_QueryNormalised ==
    (HavePair /\ SameQuery) => hist.derived.key = hist.prev.key

\* C22 as stated: two parameter triples (query, country, endpoint type)
\* that differ in any component get different key strings.
C22_TriplesKeptApart ==
    (HavePair /\ ~SameTriple) => hist.derived.key # hist.prev.key

C24_FallbackOrdered ==
    [][/\ fallback_calls' > fallback_calls =>
             (/\ pc = "fallback"
              /\ fallback_calls = 0 /\ fallback_calls' = 1
              /\ req_calls = AllCalls
              /\ outcome # "success"
              /\ pc' = "done"
              /\ origin' \in {"snapshot", "none"})
       /\ (pc # "done" /\ pc' = "done" /\ origin' = "live") =>
             fallback_calls' = 0
       /\ (pc # "done" /\ pc' = "done" /\ origin' = "none") =>
             (/\ pc = "fallback"
              /\ fallback_calls' = 1
              /\ result' = NoneResult
              /\ stats'.errors = stats.errors + 1)
       /\ pc = "fallback" => pc' = "done"
       /\ pc' # "raised"]_vars
C24_Witness ==
    /\ Returned
    /\ origin = "none"
    /\ fallback_calls = 1
    /\ req_calls = AllCalls
    /\ stats.api_calls >= 1

\* ------------------------------------------------ claims on the event loop
InBackoff(t) ==
    loop.at[t] \in {"backoff", "delay", "retry_wait"} /\ loop.wake[t] > 0
Waiting(t) == loop.at[t] \in {"queued", "suspended"}
InLimiter(t) ==
    loop.at[t] \in {"limiter", "limiter_sleep", "limiter_update"}

\* C25 as stated: while one request sleeps in a backoff wait of
\* fetch_news, another command that is waiting to run can take its next
\* step.
C25_BackoffBlocksOnlyItself ==
    \A a \in Tasks : \A b \in Tasks \ {a} :
        (InBackoff(a) /\ Waiting(b)) => ENABLED TaskStep(b)

\* C26: the read of last_request_time, the wait and the update of one
\* _rate_limit call are never interleaved with those of another command,
\* also when that command has arrived and waits to run; every return of
\* _rate_limit but the first comes at least min_request_interval after
\* the return before it.
C26_LimiterExclusive ==
    /\ [](\A a \in Tasks : InLimiter(a) =>
             /\ Running(a)
             /\ \A b \in Tasks \ {a} :
                   ~InLimiter(b) /\ ~ENABLED TaskStep(b))
    /\ [][(loop'.returns = loop.returns + 1 /\ loop.returns >= 1) =>
             since_last_request >= min_request_interval]_vars
C26_Witness ==
    /\ loop.returns = 1
    /\ \E a \in Tasks : \E b \in Tasks \ {a} :
          /\ loop.at[a] = "limiter_sleep"
          /\ loop.wake[a] = min_request_interval
          /\ Waiting(b)

\* C27: calls of _save_to_cache never overlap (a handler keeps the
\* thread throughout fetch_news), so of two writers of one key one
\* completes last. Whatever its disk write did, each tier holds the
\* payload of that last writer or no readable entry, never the payload
\* of an earlier writer, and a later read that is answered returns that
\* payload whole.
LastWritten(k) == last_live[k].data
RECURSIVE SleptBefore(_)
SleptBefore(a) ==
    IF a = 0 THEN 0
    ELSE SleptBefore(a - 1) + RetryWait(a - 1)
         + (CHOOSE j \in JitterRetry : \A i \in JitterRetry : j <= i)

\* a time budget of the caller: the one that the shortest first wait
\* between two attempts uses up
Deadline == SleptBefore(1)

\* C28 as stated: once the caller's deadline has passed, fetch_news is
\* in no backoff sleep and makes no further live attempt: it has gone on
\* to the fallback.
C28_DeadlineEndsRetries ==
    (pc \in {"request", "backoff", "delay", "retry_wait"}) =>
        SleptBefore(attempt) < Deadline

\* C29 as stated: a fetch_trending that misses the cache and gets HTTP
\* 200 with a parseable timeline returns the formatted live trends and
\* leaves them in the cache under the trending key; mock data is
\* returned only when the upstream call failed.
TrendingKey == _get_cache_key("trending", "24", "trending")
C29_LiveTrendsReturnedAndCached ==
    (/\ hist.name = "trending"
     /\ hist.tier = "upstream"
     /\ hist.data.status = 200
     /\ hist.data.json \in TrendDocs)
    => (/\ hist.ret.source = "GDELT API"
        /\ InMemory(TrendingKey, hist.ret))

\* ------------------------------------------------- claims on the formatter
Placeholder(k) ==
    CASE k = "title" -> Str("No title")
      [] k = "url" -> Str("#")
      [] k = "seendate" -> Str("Unknown")
      [] k = "content" -> Str("")
      [] k = "themes" -> PyList("")
      [] OTHER -> Str("Unknown")
EntryField(k) ==
    CASE k = "domain" -> "source"
      [] k = "seendate" -> "date"
      [] k = "sourcecountry" -> "country"
      [] k = "content" -> "summary"
      [] OTHER -> k

\* C30 as stated: whatever is wrong with the items of a response,
\* _format_articles returns an entry for each of the first ten items, and
\* an entry has the placeholder of every field its item lacks.
C30_BadItemsTolerated ==
    hist.name = "format" =>
        LET items == hist.data.articles
            n == Min(Len(items), ArticleCap)
        IN /\ "raised" \notin DOMAIN hist.ret
           /\ Len(hist.ret.articles) = n
           /\ \A i \in 1 .. n : \A k \in Fields :
                 items[i].f[k] = "missing" =>
                     hist.ret.articles[i][EntryField(k)] = Placeholder(k)

\* C31 as stated: a translate_text that misses the cache and gets HTTP
\* 200 with a translated text from a translation API returns that text
\* and leaves it in the cache under the translation key.
C31_TranslationReturnedAndCached ==
    (/\ hist.name = "translate"
     /\ hist.tier = "upstream"
     /\ \/ hist.data.first.body = "translated"
        \/ hist.data.second.body = "translated")
    => (/\ hist.ret # hist.data.text
        /\ InMemory(hist.key, hist.ret))

\* C35: every entry fetch_news leaves in the memory tier or in a
\* readable file has at least one article, and a fetch_news call that is
\* answered from the cache returns a list that is not empty.
C35_NoEmptyEntryCached ==
    /\ \A k \in DOMAIN memory_cache : Len(memory_cache[k].data.articles) >= 1
    /\ \A k \in DOMAIN disk_cache :
          ~disk_cache[k].corrupt => Len(disk_cache[k].data.articles) >= 1
    /\ (Returned /\ origin = "cache") => Len(result.articles) >= 1
C35_Witness ==
    /\ Returned
    /\ origin = "cache"
    /\ reqNo = 3
    /\ stats.cache_hits = 1
    /\ req_calls = 0
    /\ Len(result.articles) = 1
    /\ ~NoReadableFile(cache_key)

\* C36 as stated: once the last configuration of the last attempt has
\* been called and has failed, fetch_news is in no backoff wait and in no
\* delay between endpoints: it is at the fallback.
C36_NoSleepBeforeFallback ==
    (req_calls = AllCalls /\ ~Returned) => pc = "fallback"

\* C38 as stated: api_calls is the number of HTTP requests fetch_news has
\* sent to the endpoints, whatever became of them.
C38_ApiCallsCountsRequests ==
    [][req_calls' = req_calls + 1 =>
          stats'.api_calls = stats.api_calls + 1]_vars

\* ========================================================= scripts/fetch_news.py
\* The publisher: GuardianFetcher fills the directory news/ that GitHub
\* Pages serves and that the bot reads in _fetch_from_github_pages.  A text
\* whose characters the code inspects is a sequence of characters.
UpperCase == <<"A", "B", "C", "D", "E", "F", "G", "H", "I", "J", "K", "L", "M",
        "N", "O", "P", "Q", "R", "S", "T", "U", "V", "W", "X", "Y", "Z">>
LowerCase == <<"a", "b", "c", "d", "e", "f", "g", "h", "i", "j", "k", "l", "m",
        "n", "o", "p", "q", "r", "s", "t", "u", "v", "w", "x", "y", "z">>
IsUpper(c) == \E j \in 1 .. Len(UpperCase) : UpperCase[j] = c

\* str.lower(), str.isalnum(), str.replace(' ', '_') and text[:n]
lower(text) ==
    [i \in 1 .. Len(text) |->
        IF IsUpper(text[i])
        THEN LowerCase[CHOOSE j \in 1 .. Len(UpperCase) : UpperCase[j] = text[i]]
        ELSE text[i]]
isalnum(c) ==
    \/ IsUpper(c)
    \/ \E j \in 1 .. Len(LowerCase) : LowerCase[j] = c
    \/ c \in {"0", "1", "2", "3", "4", "5", "6", "7", "8", "9"}
replace_space(text) ==
    [i \in 1 .. Len(text) |-> IF text[i] = " " THEN "_" ELSE text[i]]
Slice(text, n) == SubSeq(text, 1, Min(n, Len(text)))
NameChar(c) == isalnum(c) \/ c = "_"
JsonSuffix == <<".", "j", "s", "o", "n">>

\* an argument: a text, or None
Chars(text) == [type |-> "str", chars |-> text]
NoArg == [type |-> "NoneType", chars |-> <<>>]
\* `query or section`; no call passes an empty text
Or(query, section) == IF query # NoArg THEN query ELSE section

\* lines 38-51: country_sections, in the order of the dict
country_sections ==
    <<[code |-> <<"R", "U">>,
      section |-> <<"w", "o", "r", "l", "d", "/", "r", "u", "s", "s", "i", "a">>],
     [code |-> <<"U", "A">>,
      section |-> <<"w", "o", "r", "l", "d", "/", "u", "k", "r", "a", "i", "n", "e">>],
     [code |-> <<"U", "S">>,
      section |-> <<"u", "s", "-", "n", "e", "w", "s">>],
     [code |-> <<"G", "B">>,
      section |-> <<"u", "k", "-", "n", "e", "w", "s">>],
     [code |-> <<"D", "E">>,
      section |-> <<"w", "o", "r", "l", "d", "/", "g", "e", "r", "m", "a", "n", "y">>],
     [code |-> <<"F", "R">>,
      section |-> <<"w", "o", "r", "l", "d", "/", "f", "r", "a", "n", "c", "e">>],
     [code |-> <<"J", "P">>,
      section |-> <<"w", "o", "r", "l", "d", "/", "j", "a", "p", "a", "n">>],
     [code |-> <<"I", "N">>,
      section |-> <<"w", "o", "r", "l", "d", "/", "i", "n", "d", "i", "a">>],
     [code |-> <<"C", "N">>,
      section |-> <<"w", "o", "r", "l", "d", "/", "c", "h", "i", "n", "a">>],
     [code |-> <<"B", "R">>,
      section |-> <<"w", "o", "r", "l", "d", "/", "b", "r", "a", "z", "i", "l">>],
     [code |-> <<"A", "U">>,
      section |-> <<"a", "u", "s", "t", "r", "a", "l", "i", "a", "-", "n", "e", "w", "s">>],
     [code |-> <<"C", "A">>,
      section |-> <<"w", "o", "r", "l", "d", "/", "c", "a", "n", "a", "d", "a">>]>>
\* lines 54-63: category_sections
category_sections ==
    <<[category |-> <<"t", "e", "c", "h", "n", "o", "l", "o", "g", "y">>,
      section |-> <<"t", "e", "c", "h", "n", "o", "l", "o", "g", "y">>],
     [category |-> <<"b", "u", "s", "i", "n", "e", "s", "s">>,
      section |-> <<"b", "u", "s", "i", "n", "e", "s", "s">>],
     [category |-> <<"s", "p", "o", "r", "t", "s">>,
      section |-> <<"s", "p", "o", "r", "t">>],
     [category |-> <<"s", "c", "i", "e", "n", "c", "e">>,
      section |-> <<"s", "c", "i", "e", "n", "c", "e">>],
     [category |-> <<"h", "e", "a", "l", "t", "h">>,
      section |-> <<"w", "e", "l", "l", "n", "e", "s", "s">>],
     [category |-> <<"c", "l", "i", "m", "a", "t", "e">>,
      section |-> <<"e", "n", "v", "i", "r", "o", "n", "m", "e", "n", "t">>],
     [category |-> <<"p", "o", "l", "i", "t", "i", "c", "s">>,
      section |-> <<"p", "o", "l", "i", "t", "i", "c", "s">>],
     [category |-> <<"c", "u", "l", "t", "u", "r", "e">>,
      section |-> <<"c", "u", "l", "t", "u", "r", "e">>]>>
\* lines 288-299: searches
searches ==
    <<<<"a", "r", "t", "i", "f", "i", "c", "i", "a", "l", " ", "i", "n",
        "t", "e", "l", "l", "i", "g", "e", "n", "c", "e">>,
     <<"c", "l", "i", "m", "a", "t", "e", " ", "c", "r", "i", "s", "i", "s">>,
     <<"t", "e", "c", "h", "n", "o", "l", "o", "g", "y">>,
     <<"b", "u", "s", "i", "n", "e", "s", "s">>,
     <<"s", "p", "o", "r", "t", "s">>,
     <<"s", "c", "i", "e", "n", "c", "e">>,
     <<"h", "e", "a", "l", "t", "h">>,
     <<"p", "o", "l", "i", "t", "i", "c", "s">>,
     <<"c", "u", "l", "t", "u", "r", "e">>,
     <<"e", "c", "o", "n", "o", "m", "y">>>>

\* what the Guardian API can do with one call: requests.get raises, another
\* status than 200, 200 with a body that is no JSON, 200 with a list of
\* results; a result has a headline or web title, or has neither
GuardianAnswers ==
    {[status |-> s, results |-> <<>>] : s \in {"exception", "error", "not_json"}}
    \cup {[status |-> "ok", results |-> r] :
             r \in UNION {[1 .. n -> {"titled", "untitled"}] :
                            n \in 0 .. MaxItems}}

\* lines 110-153 of fetch_news.py: only results with a title are kept
GuardianFormat(results, source) ==
    LET articles == SelectSeq(results, LAMBDA r : r = "titled")
    IN [source |-> source, timestamp |-> "now", total |-> Len(articles),
        articles |-> articles, api |-> "Guardian"]

\* lines 175-202: query.title() of None raises AttributeError
FallbackCount == 5
_generate_fallback(query) ==
    IF query = NoArg THEN Raised("AttributeError")
    ELSE LET articles == [i \in 1 .. FallbackCount |-> "fallback"]
         IN [source |-> query, timestamp |-> "now", total |-> Len(articles),
             articles |-> articles, api |-> "Guardian (Fallback)"]

\* lines 65-108; a is the answer of the API.  requests.get (line 92) and
\* response.json() (line 96) raise into the except clause; so does the
\* fallback of line 103 when it raises, and errors is counted twice.
\* Line 98 adds len() of the dict _format_articles returned: the number of
\* its keys.
fetch_guardian(st, query, section, a) ==
    LET got == [st EXCEPT !.api_calls = @ + 1]
        error(s) == [s EXCEPT !.errors = @ + 1]
        fallback == _generate_fallback(Or(query, section))
        handler(s) == [stats |-> error(s), ret |-> fallback]
    IN CASE a.status = "exception" -> handler(st)
         [] a.status = "not_json" -> handler(got)
         [] a.status = "error" ->
               IF fallback = Raised("AttributeError")
               THEN handler(error(got))
               ELSE [stats |-> error(got), ret |-> fallback]
         [] OTHER ->
               LET articles == GuardianFormat(a.results, Or(query, section))
               IN [stats |-> [got EXCEPT !.articles_fetched =
                                             @ + Cardinality(DOMAIN articles)],
                   ret |-> articles]

\* lines 229-238: the file save_search writes
save_search(name) ==
    [dir |-> "news/search",
     name |-> Slice(SelectSeq(replace_space(lower(name)), NameChar), 50)
              \o JsonSuffix]
\* lines 204-209
save_json(filename) == [dir |-> "news", name |-> filename]

\* lines 273-281 of telegram_bot.py: the file _fetch_from_github_pages asks
\* the site for
SnapshotFile(query, country) ==
    LET safe_query ==
            Slice(SelectSeq(replace_space(lower(query)), NameChar), 50)
    IN [dir |-> "news/search",
        name |-> IF country # NoArg
                 THEN safe_query \o <<"_">> \o lower(country.chars)
                      \o JsonSuffix
                 ELSE safe_query \o JsonSuffix]

InPhase(phase) == fetcher.phase = phase /\ ~fetcher.raised
\* one fetch_guardian call of run(): the exception it raises ends run()
RunCall(query, section, a, names, phase, i) ==
    LET r == fetch_guardian(fetcher.stats, query, section, a)
    IN IF r.ret = Raised("AttributeError")
       THEN [fetcher EXCEPT !.stats = r.stats, !.raised = TRUE,
                            !.status = a.status, !.ret = r.ret]
       ELSE [fetcher EXCEPT !.stats = r.stats, !.status = a.status,
                            !.ret = r.ret,
                            !.files = @ \cup names,
                            !.phase = phase, !.i = i]

botVars == <<memory_cache, disk_cache, since_last_request, stats, last_live,
             hist, callVars, loop>>
fetcherVars == <<botVars, main>>

\* lines 247-255: phase 1, Russia
Phase1(a) ==
    /\ InPhase(1)
    /\ fetcher' = RunCall(NoArg, Chars(<<"w", "o", "r", "l", "d", "/", "r", "u", "s", "s", "i", "a">>), a,
                          {save_search(<<"r", "u", "s", "s", "i", "a">>),
                           save_search(<<"r", "u">>)}, 2, 1)
    /\ UNCHANGED fetcherVars

\* lines 257-264: phase 2, Ukraine
Phase2(a) ==
    /\ InPhase(2)
    /\ fetcher' = RunCall(NoArg, Chars(<<"w", "o", "r", "l", "d", "/", "u", "k", "r", "a", "i", "n", "e">>), a,
                          {save_search(<<"u", "k", "r", "a", "i", "n", "e">>),
                           save_search(<<"u", "a">>)}, 3, 1)
    /\ UNCHANGED fetcherVars

\* where the loop over a table goes after its entry i
After(table, phase, i) ==
    IF i = Len(table) THEN [phase |-> phase + 1, i |-> 1]
    ELSE [phase |-> phase, i |-> i + 1]

\* lines 266-273: phase 3, one turn of the loop over country_sections
Phase3(a) ==
    /\ InPhase(3)
    /\ LET e == country_sections[fetcher.i]
           to == After(country_sections, 3, fetcher.i)
       IN fetcher' = RunCall(NoArg, Chars(e.section), a,
                             {save_search(lower(e.code))}, to.phase, to.i)
    /\ UNCHANGED fetcherVars

\* lines 275-284: phase 4, one turn of the loop over category_sections
Phase4(a) ==
    /\ InPhase(4)
    /\ LET e == category_sections[fetcher.i]
           to == After(category_sections, 4, fetcher.i)
       IN fetcher' = RunCall(NoArg, Chars(e.section), a,
                             {save_search(e.category),
                              save_json(e.category \o JsonSuffix)},
                             to.phase, to.i)
    /\ UNCHANGED fetcherVars

\* lines 286-306: phase 5, one turn of the loop over searches
Phase5(a) ==
    /\ InPhase(5)
    /\ LET query == searches[fetcher.i]
           to == After(searches, 5, fetcher.i)
       IN fetcher' = RunCall(Chars(query), NoArg, a,
                             {save_search(replace_space(query))},
                             to.phase, to.i)
    /\ UNCHANGED fetcherVars

\* lines 308-312: phase 6, the latest news, with neither query nor section
Phase6(a) ==
    /\ InPhase(6)
    /\ LET to == RunCall(NoArg, NoArg, a,
                         {save_json(<<"l", "a", "t", "e", "s", "t", ".", "j", "s", "o", "n">>)}, 7, 1)
       IN fetcher' = [to EXCEPT !.latest = to.ret]
    /\ UNCHANGED fetcherVars

\* lines 314-333: phase 7, trending.json from the latest articles
Phase7 ==
    /\ InPhase(7)
    /\ fetcher' = [fetcher EXCEPT
                      !.files = IF Len(fetcher.latest.articles) > 0
                                THEN @ \cup {save_json(<<"t", "r", "e", "n", "d", "i", "n", "g", ".", "j", "s", "o", "n">>)}
                                ELSE @,
                      !.phase = 8]
    /\ UNCHANGED fetcherVars

\* lines 335-345: phase 8, index.json
Phase8 ==
    /\ InPhase(8)
    /\ fetcher' = [fetcher EXCEPT
                      !.files = @ \cup {save_json(<<"i", "n", "d", "e", "x", ".", "j", "s", "o", "n">>)},
                      !.phase = 9]
    /\ UNCHANGED fetcherVars

GuardianNext ==
    \/ \E a \in GuardianAnswers :
          \/ Phase1(a)
          \/ Phase2(a)
          \/ Phase3(a)
          \/ Phase4(a)
          \/ Phase5(a)
          \/ Phase6(a)
    \/ Phase7
    \/ Phase8

GuardianSpec == Init /\ [][GuardianNext]_vars

\* ============================================ scripts/create_fallback_data.py
\* main() writes one file per topic, then latest.json, trending.json and
\* index.json.  The articles of a run differ in title, section and date;
\* main() reads none of them but the sort key, so one article stands for
\* all of them.
topics ==
    <<"russia", "ukraine", "us", "gb", "germany", "france", "japan", "india",
      "china", "australia", "technology", "business", "sport", "science",
      "environment", "politics", "culture", "lifeandstyle", "climate_change",
      "artificial_intelligence", "covid", "election", "economy", "health",
      "education">>

\* line 230: the range random.randint draws article_count from
ArticleCounts(topic) ==
    IF topic \in {"russia", "ukraine", "technology"} THEN 8 .. 15 ELSE 5 .. 10

\* lines 164-204: count articles
create_articles_for_topic(topic, count) ==
    [i \in 1 .. count |-> [api |-> "guardian_fallback", date |-> 0]]

\* sorted(articles, key=lambda x: x['date'], reverse=True): stable, the
\* largest date first
RECURSIVE SortedByDate(_, _)
SortedByDate(articles, dates) ==
    IF dates = {} THEN <<>>
    ELSE LET d == CHOOSE x \in dates : \A y \in dates : y <= x
         IN SelectSeq(articles, LAMBDA a : a.date = d)
            \o SortedByDate(articles, dates \ {d})
sorted(articles) ==
    SortedByDate(articles, {articles[i].date : i \in 1 .. Len(articles)})

mainVars == <<botVars, fetcher>>

\* lines 229-246: one turn of the loop over topics
TopicFile(count) ==
    /\ main.topic <= Len(topics)
    /\ count \in ArticleCounts(topics[main.topic])
    /\ LET topic == topics[main.topic]
           articles == create_articles_for_topic(topic, count)
           data == [source |-> topic, timestamp |-> "now",
                    total |-> Len(articles), articles |-> articles,
                    api |-> "guardian_fallback"]
       IN main' = [main EXCEPT
                      !.topic = @ + 1,
                      !.all_articles = @ \o articles,
                      !.written = data,
                      !.files = @ \cup {[dir |-> "news/search",
                                         stem |-> topic]}]
    /\ UNCHANGED mainVars

\* lines 248-258: latest.json, a mix of all articles
LatestFile ==
    /\ main.topic = Len(topics) + 1
    /\ [dir |-> "news", stem |-> "latest"] \notin main.files
    /\ LET latest == [timestamp |-> "now",
                      total |-> Len(main.all_articles),
                      articles |-> Slice(sorted(main.all_articles), 30),
                      api |-> "guardian_fallback"]
       IN main' = [main EXCEPT
                      !.written = latest,
                      !.files = @ \cup {[dir |-> "news", stem |-> "latest"]}]
    /\ UNCHANGED mainVars

\* lines 260-291: trending.json and index.json
IndexFile ==
    /\ [dir |-> "news", stem |-> "latest"] \in main.files
    /\ [dir |-> "news", stem |-> "index"] \notin main.files
    /\ main' = [main EXCEPT
                   !.files = @ \cup {[dir |-> "news", stem |-> "trending"],
                                     [dir |-> "news", stem |-> "index"]}]
    /\ UNCHANGED mainVars

FallbackDataNext ==
    \/ \E count \in 5 .. 15 : TopicFile(count)
    \/ LatestFile
    \/ IndexFile

FallbackDataSpec == Init /\ [][FallbackDataNext]_vars

\* ---------------------------------------------------------------- C32
\* C32: fetch_guardian never raises, and whenever the Guardian call fails
\* (requests.get raises, another status than 200, a body that is no JSON)
\* it returns the fallback document with 5 placeholder articles, also for
\* the call with neither query nor section that run() makes for latest.json.
FailedStatus == {"exception", "error", "not_json"}
C32_FailureGivesFallback ==
    /\ ~fetcher.raised
    /\ fetcher.status \in FailedStatus =>
          /\ fetcher.ret.api = "Guardian (Fallback)"
          /\ Len(fetcher.ret.articles) = FallbackCount

\* ---------------------------------------------------------------- C33
\* C33: run() stops only after its last phase: whatever the upstream
\* answers, when no further step of run() is possible all eight phases are
\* done and index.json is written.
C33_RunEndsWithIndex ==
    ~ENABLED GuardianNext =>
        /\ fetcher.phase = 9
        /\ save_json(<<"i", "n", "d", "e", "x", ".", "j", "s", "o", "n">>)
              \in fetcher.files

\* ---------------------------------------------------------------- C34
\* C34: once run() has written its search files, the file the bot asks the
\* site for is among them, for the /russia request ("Russia", "RU") and for
\* every published search without a country.
SnapshotRequests ==
    {[query |-> <<"R", "u", "s", "s", "i", "a">>,
      country |-> Chars(<<"R", "U">>)]}
    \cup {[query |-> searches[i], country |-> NoArg] :
             i \in 1 .. Len(searches)}
C34_SnapshotNamePublished ==
    fetcher.phase >= 6 =>
        \A r \in SnapshotRequests :
            SnapshotFile(r.query, r.country) \in fetcher.files

\* ---------------------------------------------------------------- C37
\* C37: in every document written with a total and an articles field,
\* total is the number of entries of articles.
C37_TotalCountsArticles ==
    main.written # NoneResult =>
        main.written.total = Len(main.written.articles)

\* ---------------------------------------------------------------- C39
\* C39: a fetch_guardian call that got HTTP 200 adds to articles_fetched
\* the number of articles of the result it returned, and no other call
\* changes the counter; so the counter is the sum over the 200 answers.
C39_ArticlesFetchedCountsArticles ==
    [][fetcher'.stats # fetcher.stats =>
          fetcher'.stats.articles_fetched =
              fetcher.stats.articles_fetched
              + (IF fetcher'.status = "ok"
                 THEN Len(fetcher'.ret.articles) ELSE 0)]_vars

====
